---- MODULE Spec2Model ----
(***************************************************************************)
(* Model of utils/deployment-util.js: the deployDao orchestration (cloneDao,*)
(* createFactories, createExtensions, createAdapters, configureDao,         *)
(* configureOffchainVoting, createUtilContracts, createTestContracts,       *)
(* finalizeDao) and the network table lookup getNetworkDetails.             *)
(*                                                                         *)
(* Every awaited external call (deployFunction, a contract method) is an    *)
(* element of `inflight` between the step that issues it and the step that  *)
(* continues after it resolved; the chain may reject any in-flight call.    *)
(***************************************************************************)
EXTENDS Integers, Sequences, FiniteSets, TLC

VARIABLES
  contractConfigs, \* options.contractConfigs: the descriptor table
  options,         \* the options bag passed by the caller
  pc,              \* position of deployDao: [phase, i, step]
  inflight,        \* the external calls issued and not yet settled
  log,             \* every external call issued so far, in issue order
  nextAddr,        \* the chain's next fresh contract address
  dao,             \* handle of the cloned DaoRegistry (or NoHandle)
  daoFactory,      \* handle of the deployed DaoFactory (or NoHandle)
  factories,       \* alias-keyed map built by createFactories
  extensions,      \* alias-keyed map built by createExtensions
  adapters,        \* alias-keyed map built by createAdapters
  utilContracts,   \* alias-keyed map built by createUtilContracts
  testContracts,   \* alias-keyed map built by createTestContracts
  votingHelpers,   \* result of configureOffchainVoting
  tmp,             \* local values of the running function (awaited results)
  raised,          \* the first error raised in the run (NoError if none)
  outcome,         \* "running", "resolved" or "rejected"
  error,           \* the error deployDao rejected with
  result,          \* the aggregate deployDao resolved with
  run,             \* number of the deployDao run (1 or 2)
  firstResult,     \* the aggregate of the first run, kept for comparison
  lookups,         \* getNetworkDetails calls made: <<name, result>> pairs
  instances        \* chain state: the instance each factory contract created

vars == <<contractConfigs, options, pc, inflight, log, nextAddr, dao,
          daoFactory, factories, extensions, adapters, utilContracts,
          testContracts, votingHelpers, tmp, raised, outcome, error, result,
          run, firstResult, lookups, instances>>

(***************************************************************************)
(* Bounds of the model.                                                    *)
(***************************************************************************)
\* how many places of the default table / options bag one input may change
MaxFaults == 2
\* how many getNetworkDetails calls one behaviour makes
MaxLookups == 2

(***************************************************************************)
(* JavaScript values.                                                      *)
(***************************************************************************)
Undefined == "undefined"
Null == "null"
NoHandle == [name |-> "undefined", address |-> 0]
NoError == [kind |-> "none"]
NoResult == [kind |-> "none"]

\* !v of JavaScript for the option values of the model
Falsy(v) == v \in {Undefined, Null, "0", ""}

(***************************************************************************)
(* Alias-keyed maps (JavaScript objects with insertion order).             *)
(***************************************************************************)
EmptyMap == <<>>

Keys(m) == {m[k].alias : k \in 1..Len(m)}

\* Object.values(m)
Values(m) == [k \in 1..Len(m) |-> m[k].handle]

HasKey(m, a) == \E k \in 1..Len(m) : m[k].alias = a

Get(m, a) == m[CHOOSE k \in 1..Len(m) : m[k].alias = a].handle

\* m[a] = h: a new key is appended, an existing key keeps its place
Put(m, a, h) ==
  IF HasKey(m, a)
    THEN [k \in 1..Len(m) |->
            IF m[k].alias = a THEN [alias |-> a, handle |-> h] ELSE m[k]]
    ELSE Append(m, [alias |-> a, handle |-> h])

(***************************************************************************)
(* The descriptor table (migrations/configs/contracts.config) and the      *)
(* options bag are inputs of deployDao.  The inputs of the model are a     *)
(* default table and a default bag with at most MaxFaults places changed.  *)
(***************************************************************************)
Factory == "Factory"
Extension == "Extension"
Adapter == "Adapter"
Util == "Util"
Test == "Test"

Descriptor(name, id, type, alias, args, gen, aclDao, aclExt, daoCfg) ==
  [name |-> name, id |-> id, type |-> type, alias |-> alias,
   enabled |-> TRUE, skipAutoDeploy |-> FALSE, deploymentArgs |-> args,
   generatesExtensionId |-> gen, aclsDao |-> aclDao,
   aclsExtensions |-> aclExt, daoConfigs |-> daoCfg]

DefaultConfigs ==
  << Descriptor("BankExtension", "bank", Extension, "bankExt",
                <<>>, Undefined, FALSE, {}, <<>>),
     Descriptor("BankFactory", "bank-ext-factory", Factory, "bankExtFactory",
                <<"maxExternalTokens">>, "bank", FALSE, {}, <<>>),
     Descriptor("ERC20Extension", "erc20-ext", Extension, "erc20Ext",
                <<>>, Undefined, FALSE, {"bank"}, <<>>),
     Descriptor("ERC20TokenExtensionFactory", "erc20-ext-factory", Factory,
                "erc20ExtFactory", <<>>, "erc20-ext", FALSE, {}, <<>>),
     Descriptor("VotingContract", "voting", Adapter, "voting",
                <<>>, Undefined, TRUE, {}, 
                << <<"daoAddress", "votingPeriod", "gracePeriod">> >>),
     Descriptor("CouponOnboardingContract", "coupon-onboarding", Adapter,
                "couponOnboarding", <<"chainId", "couponCreatorAddress">>,
                Undefined, TRUE,
                {"bank", "erc20-ext"},
                << <<"daoAddress", "couponCreatorAddress">>,
                   <<"daoAddress", "erc20-ext">> >>),
     [Descriptor("OffchainVotingContract", "voting", Adapter, "voting",
                <<>>, Undefined, TRUE, {"bank"}, <<>>)
        EXCEPT !.skipAutoDeploy = TRUE],
     Descriptor("Multicall", "multicall", Util, "multicall",
                <<>>, Undefined, FALSE, {}, <<>>),
     Descriptor("TestToken1", "test-token-1", Test, "testToken1",
                <<"supplyTestToken1">>, Undefined, FALSE, {}, <<>>) >>

\* Object.values(extensionsIdsMap) of utils/dao-ids-util
ExtensionsIds == {"bank", "erc20-ext", "nft"}

DefaultOptions ==
  [contracts |-> {DefaultConfigs[i].name : i \in 1..Len(DefaultConfigs)},
   vals |-> [maxExternalTokens |-> "100", chainId |-> "1",
             supplyTestToken1 |-> "1000", votingPeriod |-> "10",
             gracePeriod |-> "1", couponCreatorAddress |-> "0x1"],
   offchainVoting |-> FALSE, deployTestTokens |-> TRUE, finalize |-> TRUE]

Site(kind, i, key, v) == [kind |-> kind, i |-> i, key |-> key, v |-> v]

\* the places one input may differ from the default in
Sites ==
  {Site("disable", i, "", "") : i \in 1..Len(DefaultConfigs)}
  \cup {Site("skip", i, "", "") : i \in 1..Len(DefaultConfigs)}
  \cup {Site("unlink", i, "", "") :
          i \in {j \in 1..Len(DefaultConfigs) :
                   DefaultConfigs[j].type = Factory}}
  \cup {Site("alias", 4, "bankExtFactory", "")}
  \cup {Site("swap", 2, "", "")}
  \cup {Site("nocontract", 0, n, "") : n \in DefaultOptions.contracts}
  \cup {Site("val", 0, k, v) :
          k \in {"maxExternalTokens", "chainId", "supplyTestToken1"},
          v \in {Undefined, Null, "0"}}
  \cup {Site("val", 0, k, v) :
          k \in {"votingPeriod", "couponCreatorAddress"},
          v \in {Undefined, "0"}}
  \cup {Site("flag", 0, k, "") :
          k \in {"offchainVoting", "deployTestTokens", "finalize"}}

RECURSIVE SubsetsUpTo(_, _)
SubsetsUpTo(S, n) ==
  IF n = 0 THEN {{}}
  ELSE LET smaller == SubsetsUpTo(S, n - 1)
       IN  smaller \cup {T \cup {x} : T \in smaller, x \in S}

\* the table with the changes of F; the "swap" change lists the two factory
\* descriptors in the opposite order
ConfigsWith(F) ==
  LET table ==
        [i \in 1..Len(DefaultConfigs) |->
           LET d == DefaultConfigs[i]
           IN  [d EXCEPT
                  !.enabled =
                     IF Site("disable", i, "", "") \in F THEN FALSE ELSE @,
                  !.skipAutoDeploy =
                     IF Site("skip", i, "", "") \in F THEN TRUE ELSE @,
                  !.generatesExtensionId =
                     IF Site("unlink", i, "", "") \in F
                       THEN "unknown-ext" ELSE @,
                  !.alias =
                     IF \E s \in F : s.kind = "alias" /\ s.i = i
                       THEN (CHOOSE s \in F : s.kind = "alias" /\ s.i = i).key
                       ELSE @]]
  IN  IF Site("swap", 2, "", "") \in F
        THEN [i \in 1..Len(table) |->
                IF i = 2 THEN table[4] ELSE IF i = 4 THEN table[2]
                ELSE table[i]]
        ELSE table

OptionsWith(F) ==
  [contracts |->
     {n \in DefaultOptions.contracts : Site("nocontract", 0, n, "") \notin F},
   vals |->
     [k \in DOMAIN DefaultOptions.vals |->
        IF \E s \in F : s.kind = "val" /\ s.key = k
          THEN (CHOOSE s \in F : s.kind = "val" /\ s.key = k).v
          ELSE DefaultOptions.vals[k]],
   offchainVoting |->
     (DefaultOptions.offchainVoting
        # (Site("flag", 0, "offchainVoting", "") \in F)),
   deployTestTokens |->
     (DefaultOptions.deployTestTokens
        # (Site("flag", 0, "deployTestTokens", "") \in F)),
   finalize |->
     (DefaultOptions.finalize # (Site("flag", 0, "finalize", "") \in F))]

\* the sets of changes of one input: no two values for one option key
FaultSets ==
  {F \in SubsetsUpTo(Sites, MaxFaults) :
     \A s, t \in F : (s.kind = "val" /\ t.kind = "val" /\ s.key = t.key)
                        => s = t}

(***************************************************************************)
(* Values, handles, errors and external calls.                             *)
(***************************************************************************)
\* a JavaScript value passed to a call: an option value, an address, a
\* contract artifact, an access-control entry or a hash
Val(k, v, a) == [k |-> k, v |-> v, a |-> a]
Str(v) == Val("val", v, 0)
Addr(a) == Val("addr", "", a)

Handle(name, address) == [name |-> name, address |-> address]

Err(kind, arg, name) == [kind |-> kind, arg |-> arg, name |-> name]

\* the TypeError of reading a property of undefined
TypeError(prop) == Err("TypeError", prop, "")

\* the rejection of an external call by the chain
Revert(call) == Err("ChainCallError", call.op, call.target)

Pc(phase, i, step, j) == [phase |-> phase, i |-> i, step |-> step, j |-> j]

NoTmp ==
  [addr |-> 0, ext |-> NoHandle, snapshot |-> NoHandle, hash |-> NoHandle,
   kick |-> NoHandle, offchain |-> NoHandle]

NoVotingHelpers ==
  [snapshotProposalContract |-> NoHandle, handleBadReporterAdapter |-> NoHandle,
   offchainVoting |-> NoHandle]

\* options[key] of the working copy of the options bag (deployDao adds
\* daoAddress, unitTokenToMint and lootTokenToMint to the caller's fields)
Opt(key) ==
  IF key = "daoAddress" THEN Addr(dao.address)
  ELSE IF key = "unitTokenToMint" THEN Str("UNITS")
  ELSE IF key = "lootTokenToMint" THEN Str("LOOT")
  ELSE IF key \in DOMAIN options.vals THEN Str(options.vals[key])
  ELSE Str(Undefined)

\* mutant: Object.assign(options, {daoAddress, ...}) on the caller's object
OptionsAssignedInPlace(opts) ==
  [opts EXCEPT !.vals =
     [k \in DOMAIN opts.vals \cup
               {"daoAddress", "unitTokenToMint", "lootTokenToMint"} |->
        IF k \in DOMAIN opts.vals THEN opts.vals[k] ELSE "added"]]

\* the caller's options object after `options = {...options, daoAddress,
\* unitTokenToMint, lootTokenToMint}`: the spread builds a new object and
\* rebinds the local name, the caller's object keeps its fields
CallerOptionsAfterCopy(opts) == opts

\* options[config.name]: the contract artifact registered under a name
HasContract(name) == name \in options.contracts

\* mutant: only undefined counts as a missing argument, null passes
IsMissingUndefinedOnly(val) == val.k = "val" /\ val.v = Undefined

\* arg !== null && arg !== undefined, negated
IsMissing(val) == val.k = "val" /\ val.v \in {Undefined, Null}

\* mutant: readConfigValue rejects null and undefined alone
IsFalsyNullishOnly(val) == val.k = "val" /\ val.v \in {Undefined, Null}

\* !configValue
IsFalsy(val) == val.k = "val" /\ Falsy(val.v)

\* index of the first descriptor with the given id, 0 when find() is undefined
FindIndexById(id) ==
  IF \E k \in 1..Len(contractConfigs) : contractConfigs[k].id = id
    THEN CHOOSE k \in 1..Len(contractConfigs) :
           /\ contractConfigs[k].id = id
           /\ \A l \in 1..(k - 1) : contractConfigs[l].id # id
    ELSE 0

\* index of the first descriptor with the given contract name, 0 if none
FindIndexByName(name) ==
  IF \E k \in 1..Len(contractConfigs) : contractConfigs[k].name = name
    THEN CHOOSE k \in 1..Len(contractConfigs) :
           /\ contractConfigs[k].name = name
           /\ \A l \in 1..(k - 1) : contractConfigs[l].name # name
    ELSE 0

\* handle.configs: the descriptor embedded in a deployed contract handle
Configs(h) == contractConfigs[FindIndexByName(h.name)]

HasConfigs(h) == FindIndexByName(h.name) # 0

IsAutoDeployed(config) == config.enabled /\ ~config.skipAutoDeploy

\* the filtered descriptor list a deployment phase folds over
DeployableOfType(type) ==
  LET Keep(config) == config.type = type /\ IsAutoDeployed(config)
  IN  SelectSeq(contractConfigs, Keep)

\* the first declared deployment argument that is null or undefined, or 0
FirstMissingArg(config) ==
  LET args == config.deploymentArgs
  IN  IF \E k \in 1..Len(args) : IsMissing(Opt(args[k]))
        THEN CHOOSE k \in 1..Len(args) :
               /\ IsMissing(Opt(args[k]))
               /\ \A l \in 1..(k - 1) : ~IsMissing(Opt(args[l]))
        ELSE 0

ResolvedArgs(config) ==
  [k \in 1..Len(config.deploymentArgs) |-> Opt(config.deploymentArgs[k])]

(***************************************************************************)
(* Control: awaiting, issuing a call, throwing, the catch handlers.        *)
(***************************************************************************)
Inputs == <<contractConfigs, options, run, firstResult, lookups>>
Maps == <<factories, extensions, adapters, utilContracts, testContracts,
          votingHelpers>>
Daos == <<dao, daoFactory>>
Ends == <<raised, outcome, error>>

\* mutant: the next call is issued without awaiting the one in flight
NotAwaited == TRUE

\* `await` and `p.then(...)`: the continuation runs once the call settled
Awaited == inflight = {}

\* mutant: configureDao is called before createAdapters
PhaseAfterConfiguringFirst(phase) ==
  CASE phase = "cloneDao" -> Pc("createFactories", 1, "deployFunction", 1)
    [] phase = "createFactories" -> Pc("createExtensions", 1, "create", 1)
    [] phase = "createExtensions" -> Pc("daoAccess", 1, "addAdapters", 1)
    [] phase = "daoAccess" -> Pc("daoParameters", 1, "configureDao", 1)
    [] phase = "daoParameters" -> Pc("adapterGrants", 1, "configureExtension", 1)
    [] phase = "adapterGrants" ->
         Pc("extensionGrants", 1, "configureExtension", 1)
    [] phase = "extensionGrants" ->
         Pc("createAdapters", 1, "deployFunction", 1)
    [] phase = "createAdapters" ->
         Pc("offchainVoting", 1, "getAdapterAddress", 1)
    [] phase = "offchainVoting" ->
         Pc("createUtilContracts", 1, "deployFunction", 1)
    [] phase = "createUtilContracts" ->
         Pc("createTestContracts", 1, "deployFunction", 1)
    [] phase = "createTestContracts" -> Pc("finalize", 1, "finalizeDao", 1)
    [] OTHER -> Pc("return", 1, "return", 1)

\* the order in which deployDao and configureDao run their phases
PhaseAfter(phase) ==
  CASE phase = "cloneDao" -> Pc("createFactories", 1, "deployFunction", 1)
    [] phase = "createFactories" -> Pc("createExtensions", 1, "create", 1)
    [] phase = "createExtensions" -> Pc("createAdapters", 1, "deployFunction", 1)
    [] phase = "createAdapters" -> Pc("daoAccess", 1, "addAdapters", 1)
    [] phase = "daoAccess" -> Pc("daoParameters", 1, "configureDao", 1)
    [] phase = "daoParameters" -> Pc("adapterGrants", 1, "configureExtension", 1)
    [] phase = "adapterGrants" ->
         Pc("extensionGrants", 1, "configureExtension", 1)
    [] phase = "extensionGrants" ->
         Pc("offchainVoting", 1, "getAdapterAddress", 1)
    [] phase = "offchainVoting" ->
         Pc("createUtilContracts", 1, "deployFunction", 1)
    [] phase = "createUtilContracts" ->
         Pc("createTestContracts", 1, "deployFunction", 1)
    [] phase = "createTestContracts" -> Pc("finalize", 1, "finalizeDao", 1)
    [] OTHER -> Pc("return", 1, "return", 1)

\* mutant: the catch handler of createAdapters logs and does not rethrow
CatchSwallowsInCreateAdapters(phase) == phase # "createAdapters"

\* every catch handler of the module ends with `throw e`
CatchRethrows(phase) == TRUE

\* the error a phase's catch handlers throw for a caught error e: the handler
\* of the adapter-to-extension grants reads extensions.configs.name, a
\* property of the undefined extensions.configs, before it reaches `throw e`
Rethrown(phase, e) ==
  IF phase = "adapterGrants" /\ ~HasKey(extensions, "configs")
    THEN TypeError("name")
    ELSE e

\* an external call is issued: it is in flight until it settles
Issue(op, target, args) ==
  LET call == [op |-> op, target |-> target, args |-> args,
               phase |-> pc.phase, n |-> Len(log) + 1]
  IN  /\ inflight' = inflight \cup {call}
      /\ log' = Append(log, call)

\* error e is raised in the current phase and passes its catch handlers
Fail(e) ==
  /\ raised' = IF raised = NoError THEN e ELSE raised
  /\ IF CatchRethrows(pc.phase)
       THEN /\ outcome' = "rejected"
            /\ error' = Rethrown(pc.phase, e)
            /\ pc' = pc
       ELSE /\ outcome' = outcome
            /\ error' = error
            /\ pc' = [pc EXCEPT !.i = @ + 1]

Running(phase) == outcome = "running" /\ pc.phase = phase

\* a step of a phase that either throws e (when e is an error) or issues a call
ThrowOrIssue(e, op, target, args) ==
  IF e # NoError
    THEN Fail(e) /\ UNCHANGED <<inflight, log>>
    ELSE Issue(op, target, args) /\ UNCHANGED <<pc, Ends>>

Init ==
  /\ \E F \in FaultSets :
       /\ contractConfigs = ConfigsWith(F)
       /\ options = OptionsWith(F)
  /\ pc = Pc("cloneDao", 1, "deployFunction", 1)
  /\ inflight = {}
  /\ log = <<>>
  /\ nextAddr = 1
  /\ instances = {}
  /\ dao = NoHandle
  /\ daoFactory = NoHandle
  /\ factories = EmptyMap
  /\ extensions = EmptyMap
  /\ adapters = EmptyMap
  /\ utilContracts = EmptyMap
  /\ testContracts = EmptyMap
  /\ votingHelpers = NoVotingHelpers
  /\ tmp = NoTmp
  /\ raised = NoError
  /\ outcome = "running"
  /\ error = NoError
  /\ result = NoResult
  /\ run = 1
  /\ firstResult = NoResult
  /\ lookups = <<>>

(***************************************************************************)
(* The chain rejects an in-flight call: the rejection propagates through   *)
(* the catch handlers of the phase that awaits it.                         *)
(***************************************************************************)
Reject ==
  /\ outcome = "running"
  /\ \E call \in inflight :
       /\ inflight' = inflight \ {call}
       /\ Fail(Revert(call))
  /\ UNCHANGED <<log, nextAddr, instances, Daos, Maps, tmp, result, Inputs>>

(***************************************************************************)
(* cloneDao                                                                *)
(***************************************************************************)
CloneDaoStep ==
  /\ Running("cloneDao")
  /\ Awaited
  /\ CASE pc.step = "deployFunction" ->
            Issue("deployFunction", "DaoFactory", <<Str("DaoRegistry")>>)
       [] pc.step = "createDao" ->
            Issue("createDao", "DaoFactory", <<Str("daoName")>>)
       [] pc.step = "getDaoAddress" ->
            Issue("getDaoAddress", "DaoFactory", <<Str("daoName")>>)
       [] OTHER ->
            Issue("at", "DaoRegistry", <<Addr(tmp.addr)>>)
  /\ UNCHANGED <<pc, Ends, nextAddr, instances, Daos, Maps, tmp, result,
                 Inputs>>

CloneDaoThen ==
  /\ Running("cloneDao")
  /\ \E call \in inflight :
       /\ inflight' = inflight \ {call}
       /\ CASE pc.step = "deployFunction" ->
                 /\ daoFactory' = Handle("DaoFactory", nextAddr)
                 /\ nextAddr' = nextAddr + 1
                 /\ pc' = [pc EXCEPT !.step = "createDao"]
                 /\ UNCHANGED <<dao, instances, tmp>>
            [] pc.step = "createDao" ->
                 /\ instances' = instances \cup
                      {[factory |-> daoFactory.address, instance |-> nextAddr]}
                 /\ nextAddr' = nextAddr + 1
                 /\ pc' = [pc EXCEPT !.step = "getDaoAddress"]
                 /\ UNCHANGED <<dao, daoFactory, tmp>>
            [] pc.step = "getDaoAddress" ->
                 /\ tmp' = [tmp EXCEPT !.addr =
                      (CHOOSE r \in instances :
                         r.factory = daoFactory.address).instance]
                 /\ pc' = [pc EXCEPT !.step = "at"]
                 /\ UNCHANGED <<dao, daoFactory, instances, nextAddr>>
            [] OTHER ->
                 /\ dao' = Handle("DaoRegistry", tmp.addr)
                 /\ pc' = PhaseAfter("cloneDao")
                 /\ UNCHANGED <<daoFactory, instances, nextAddr, tmp>>
  /\ options' = IF pc.step = "at" THEN CallerOptionsAfterCopy(options)
                 ELSE options
  /\ UNCHANGED <<log, Ends, Maps, result, contractConfigs, run, firstResult,
                 lookups>>

(***************************************************************************)
(* createFactories                                                         *)
(***************************************************************************)
\* mutant: createFactories without the check of the generated-extension link
FactoryCheckWithoutLink(config) ==
  IF ~HasContract(config.name)
    THEN Err("MissingFactoryContract", "", config.name)
    ELSE NoError

\* the error createFactories throws for a factory descriptor before its
\* deployment, NoError when the three checks pass
FactoryCheck(config) ==
  IF ~HasContract(config.name)
    THEN Err("MissingFactoryContract", "", config.name)
  ELSE IF FindIndexById(config.generatesExtensionId) = 0
    THEN Err("MissingExtensionConfig", config.generatesExtensionId,
             config.name)
  ELSE IF ~HasContract(
            contractConfigs[FindIndexById(config.generatesExtensionId)].name)
    THEN Err("MissingExtensionContract", "",
             contractConfigs[FindIndexById(config.generatesExtensionId)].name)
  ELSE NoError

CreateFactoriesStep ==
  /\ Running("createFactories")
  /\ Awaited
  /\ LET list == DeployableOfType(Factory)
     IN  IF pc.i > Len(list)
           THEN /\ pc' = PhaseAfter("createFactories")
                /\ UNCHANGED <<inflight, log, Ends>>
           ELSE LET config == list[pc.i]
                    ext == FindIndexById(config.generatesExtensionId)
                IN  ThrowOrIssue(FactoryCheck(config), "deployFunction",
                      config.name,
                      IF ext = 0 THEN <<>>
                      ELSE <<Str(contractConfigs[ext].name)>>)
  /\ UNCHANGED <<nextAddr, instances, Daos, Maps, tmp, result, Inputs>>

CreateFactoriesThen ==
  /\ Running("createFactories")
  /\ \E call \in inflight :
       LET factory == Handle(call.target, nextAddr)
       IN  /\ inflight' = inflight \ {call}
           /\ nextAddr' = nextAddr + 1
           /\ factories' = Put(factories, Configs(factory).alias, factory)
           /\ pc' = [pc EXCEPT !.i = @ + 1]
  /\ UNCHANGED <<log, Ends, instances, Daos, extensions, adapters,
                 utilContracts, testContracts, votingHelpers, tmp, result,
                 Inputs>>

(***************************************************************************)
(* createExtensions / createExtension                                      *)
(***************************************************************************)
\* the error createExtension throws before factory.create, NoError if none
CreateCheck(factoryConfigs) ==
  IF FindIndexById(factoryConfigs.generatesExtensionId) = 0
    THEN Err("MissingExtensionConfiguration", "", factoryConfigs.name)
  ELSE IF FirstMissingArg(factoryConfigs) # 0
    THEN Err("MissingCreateArgument",
             factoryConfigs.deploymentArgs[FirstMissingArg(factoryConfigs)],
             factoryConfigs.name)
  ELSE NoError

\* the descriptor of the extension a factory generates
ExtensionConfigsOf(factory) ==
  contractConfigs[FindIndexById(Configs(factory).generatesExtensionId)]

\* mutant: the address is not queried after create, the one read last is used
ExtensionAddressNotQueried(factory) == tmp.addr

\* mutant: the address of an instance some factory created is used
ExtensionAddressOfAnyFactory(factory) ==
  (CHOOSE r \in instances : TRUE).instance

\* factory.getExtensionAddress(options.daoAddress): the instance the chain
\* recorded for this factory
ExtensionAddressOf(factory) ==
  (CHOOSE r \in instances : r.factory = factory.address).instance

\* sha3(id)
Sha3(id) == Val("sha3", id, 0)

CreateExtensionsStep ==
  /\ Running("createExtensions")
  /\ Awaited
  /\ LET list == Values(factories)
     IN  IF pc.i > Len(list)
           THEN /\ pc' = PhaseAfter("createExtensions")
                /\ UNCHANGED <<inflight, log, Ends>>
           ELSE LET factory == list[pc.i]
                IN  CASE pc.step = "create" ->
                           ThrowOrIssue(CreateCheck(Configs(factory)),
                             "create", factory.name,
                             ResolvedArgs(Configs(factory)))
                      [] pc.step = "getExtensionAddress" ->
                           ThrowOrIssue(NoError, "getExtensionAddress",
                             factory.name, <<Opt("daoAddress")>>)
                      [] pc.step = "at" ->
                           ThrowOrIssue(
                             IF HasContract(ExtensionConfigsOf(factory).name)
                               THEN NoError
                               ELSE Err("ExtensionContractNotFound", "",
                                        ExtensionConfigsOf(factory).name),
                             "at", ExtensionConfigsOf(factory).name,
                             <<Addr(tmp.addr)>>)
                      [] OTHER ->
                           ThrowOrIssue(
                             IF HasConfigs(tmp.ext) THEN NoError
                               ELSE Err("UnableToEmbedConfigs", "",
                                        ExtensionConfigsOf(factory).name),
                             "addExtension", tmp.ext.name,
                             <<Sha3(Configs(tmp.ext).id),
                               Addr(tmp.ext.address)>>)
  /\ UNCHANGED <<nextAddr, instances, Daos, Maps, tmp, result, Inputs>>

CreateExtensionsThen ==
  /\ Running("createExtensions")
  /\ \E call \in inflight :
       LET factory == Values(factories)[pc.i]
       IN  /\ inflight' = inflight \ {call}
           /\ CASE pc.step = "create" ->
                     /\ instances' = instances \cup
                          {[factory |-> factory.address,
                            instance |-> nextAddr]}
                     /\ nextAddr' = nextAddr + 1
                     /\ pc' = [pc EXCEPT !.step = "getExtensionAddress"]
                     /\ UNCHANGED <<tmp, extensions>>
                [] pc.step = "getExtensionAddress" ->
                     /\ tmp' = [tmp EXCEPT !.addr = ExtensionAddressOf(factory)]
                     /\ pc' = [pc EXCEPT !.step = "at"]
                     /\ UNCHANGED <<instances, nextAddr, extensions>>
                [] pc.step = "at" ->
                     /\ tmp' = [tmp EXCEPT !.ext =
                                  Handle(call.target, tmp.addr)]
                     /\ pc' = [pc EXCEPT !.step = "addExtension"]
                     /\ UNCHANGED <<instances, nextAddr, extensions>>
                [] OTHER ->
                     /\ extensions' =
                          Put(extensions, Configs(tmp.ext).alias, tmp.ext)
                     /\ pc' = [pc EXCEPT !.i = @ + 1, !.step = "create"]
                     /\ UNCHANGED <<instances, nextAddr, tmp>>
  /\ UNCHANGED <<log, Ends, Daos, factories, adapters, utilContracts,
                 testContracts, votingHelpers, result, Inputs>>

(***************************************************************************)
(* deployContract, createAdapters, createUtilContracts, createTestContracts*)
(***************************************************************************)
\* the error deployContract throws before options.deployFunction, or NoError
DeployCheck(config) ==
  IF ~HasContract(config.name)
    THEN Err("ContractNotFound", "", config.name)
  ELSE IF FirstMissingArg(config) # 0
    THEN Err("MissingDeploymentArgument",
             config.deploymentArgs[FirstMissingArg(config)], config.name)
  ELSE NoError

\* one step of a fold of deployContract over the filtered list of a type
DeployContractStep(phase, type) ==
  LET list == DeployableOfType(type)
  IN  IF pc.i > Len(list)
        THEN /\ pc' = PhaseAfter(phase)
             /\ UNCHANGED <<inflight, log, Ends>>
        ELSE ThrowOrIssue(DeployCheck(list[pc.i]), "deployFunction",
               list[pc.i].name, ResolvedArgs(list[pc.i]))

CreateAdaptersStep ==
  /\ Running("createAdapters")
  /\ Awaited
  /\ DeployContractStep("createAdapters", Adapter)
  /\ UNCHANGED <<nextAddr, instances, Daos, Maps, tmp, result, Inputs>>

CreateAdaptersThen ==
  /\ Running("createAdapters")
  /\ \E call \in inflight :
       LET adapter == Handle(call.target, nextAddr)
       IN  /\ inflight' = inflight \ {call}
           /\ nextAddr' = nextAddr + 1
           /\ adapters' = Put(adapters, Configs(adapter).alias, adapter)
           /\ pc' = [pc EXCEPT !.i = @ + 1]
  /\ UNCHANGED <<log, Ends, instances, Daos, factories, extensions,
                 utilContracts, testContracts, votingHelpers, tmp, result,
                 Inputs>>

CreateUtilContractsStep ==
  /\ Running("createUtilContracts")
  /\ Awaited
  /\ DeployContractStep("createUtilContracts", Util)
  /\ UNCHANGED <<nextAddr, instances, Daos, Maps, tmp, result, Inputs>>

CreateUtilContractsThen ==
  /\ Running("createUtilContracts")
  /\ \E call \in inflight :
       LET utilContract == Handle(call.target, nextAddr)
       IN  /\ inflight' = inflight \ {call}
           /\ nextAddr' = nextAddr + 1
           /\ utilContracts' =
                Put(utilContracts, Configs(utilContract).alias, utilContract)
           /\ pc' = [pc EXCEPT !.i = @ + 1]
  /\ UNCHANGED <<log, Ends, instances, Daos, factories, extensions, adapters,
                 testContracts, votingHelpers, tmp, result, Inputs>>

\* mutant: createTestContracts without the early return
TestContractsAlways == TRUE

\* if (!options.deployTestTokens) return testContracts
TestContractsGate == options.deployTestTokens

CreateTestContractsStep ==
  /\ Running("createTestContracts")
  /\ Awaited
  /\ IF ~TestContractsGate
       THEN /\ pc' = PhaseAfter("createTestContracts")
            /\ UNCHANGED <<inflight, log, Ends>>
       ELSE DeployContractStep("createTestContracts", Test)
  /\ UNCHANGED <<nextAddr, instances, Daos, Maps, tmp, result, Inputs>>

CreateTestContractsThen ==
  /\ Running("createTestContracts")
  /\ \E call \in inflight :
       LET testContract == Handle(call.target, nextAddr)
       IN  /\ inflight' = inflight \ {call}
           /\ nextAddr' = nextAddr + 1
           /\ testContracts' =
                Put(testContracts, Configs(testContract).alias, testContract)
           /\ pc' = [pc EXCEPT !.i = @ + 1]
  /\ UNCHANGED <<log, Ends, instances, Daos, factories, extensions, adapters,
                 utilContracts, votingHelpers, tmp, result, Inputs>>

(***************************************************************************)
(* configureDao                                                            *)
(***************************************************************************)
\* entryDao(configs.id, contract.address, configs.acls)
EntryDao(h) == Val("entry", Configs(h).id, h.address)

\* extension.configs.buildAclFlag(c.address, c.configs.acls)
AclFlag(c) == Val("flag", Configs(c).id, c.address)

\* adapters that get a DAO-level access entry
AdaptersWithAccess ==
  LET Keep(a) == /\ Configs(a).enabled
                 /\ ~Configs(a).skipAutoDeploy
                 /\ Configs(a).aclsDao
  IN  SelectSeq(Values(adapters), Keep)

\* mutant: the batch holds the entries of the adapters alone
ContractsWithAccessAdaptersOnly ==
  [k \in 1..Len(AdaptersWithAccess) |-> EntryDao(AdaptersWithAccess[k])]

\* adaptersWithAccess followed by the extensions that access other extensions
ContractsWithAccess ==
  LET Keep(e) == /\ Configs(e).enabled
                 /\ ~Configs(e).skipAutoDeploy
                 /\ Configs(e).aclsExtensions # {}
      exts == SelectSeq(Values(extensions), Keep)
      all == AdaptersWithAccess \o exts
  IN  [k \in 1..Len(all) |-> EntryDao(all[k])]

ConfigureAdaptersWithDAOAccessStep ==
  /\ Running("daoAccess")
  /\ Awaited
  /\ Issue("addAdapters", "DaoFactory", ContractsWithAccess)
  /\ UNCHANGED <<pc, Ends, nextAddr, instances, Daos, Maps, tmp, result,
                 Inputs>>

ConfigureAdaptersWithDAOAccessThen ==
  /\ Running("daoAccess")
  /\ \E call \in inflight :
       /\ inflight' = inflight \ {call}
       /\ pc' = PhaseAfter("daoAccess")
  /\ UNCHANGED <<log, Ends, nextAddr, instances, Daos, Maps, tmp, result,
                 Inputs>>

\* adapters whose descriptor declares DAO configuration groups
AdaptersWithDAOParameters ==
  LET Keep(a) == /\ Configs(a).enabled
                 /\ ~Configs(a).skipAutoDeploy
                 /\ Len(Configs(a).daoConfigs) > 0
  IN  SelectSeq(Values(adapters), Keep)

\* Object.values(extensions).find((e) => e.configs.id === configName)
FindExtensionById(id) ==
  LET exts == Values(extensions)
  IN  IF \E k \in 1..Len(exts) : Configs(exts[k]).id = id
        THEN exts[CHOOSE k \in 1..Len(exts) :
                    /\ Configs(exts[k]).id = id
                    /\ \A l \in 1..(k - 1) : Configs(exts[l]).id # id]
        ELSE NoHandle

\* whether readConfigValue throws for a parameter name
ConfigValueFails(configName) ==
  IF configName \in ExtensionsIds
    THEN FindExtensionById(configName) = NoHandle
    ELSE IsFalsy(Opt(configName))

\* mutant: readConfigValue without the lookup among the extensions
ReadConfigValueFromOptions(configName) == Opt(configName)

\* the value readConfigValue returns for a parameter name
ReadConfigValue(configName) ==
  IF configName \in ExtensionsIds
    THEN Addr(FindExtensionById(configName).address)
    ELSE Opt(configName)

\* the error of resolving one parameter group, NoError when all resolve
ConfigEntryCheck(configEntry, contractName) ==
  IF \E k \in 1..Len(configEntry) : ConfigValueFails(configEntry[k])
    THEN Err("DaoParameterError",
             configEntry[CHOOSE k \in 1..Len(configEntry) :
                /\ ConfigValueFails(configEntry[k])
                /\ \A l \in 1..(k - 1) : ~ConfigValueFails(configEntry[l])],
             contractName)
    ELSE NoError

ConfigureAdaptersWithDAOParametersStep ==
  /\ Running("daoParameters")
  /\ Awaited
  /\ LET list == AdaptersWithDAOParameters
     IN  IF pc.i > Len(list)
           THEN /\ pc' = PhaseAfter("daoParameters")
                /\ UNCHANGED <<inflight, log, Ends>>
           ELSE LET adapter == list[pc.i]
                    configEntry == Configs(adapter).daoConfigs[pc.j]
                IN  ThrowOrIssue(
                      ConfigEntryCheck(configEntry, adapter.name),
                      "configureDao", adapter.name,
                      [k \in 1..Len(configEntry) |->
                         ReadConfigValue(configEntry[k])])
  /\ UNCHANGED <<nextAddr, instances, Daos, Maps, tmp, result, Inputs>>

ConfigureAdaptersWithDAOParametersThen ==
  /\ Running("daoParameters")
  /\ \E call \in inflight :
       LET adapter == AdaptersWithDAOParameters[pc.i]
       IN  /\ inflight' = inflight \ {call}
           /\ pc' = IF pc.j < Len(Configs(adapter).daoConfigs)
                      THEN [pc EXCEPT !.j = @ + 1]
                      ELSE [pc EXCEPT !.i = @ + 1, !.j = 1]
  /\ UNCHANGED <<log, Ends, nextAddr, instances, Daos, Maps, tmp, result,
                 Inputs>>

\* the target extensions of the adapter-to-extension grants
AdapterGrantTargets ==
  LET Keep(e) == Configs(e).enabled /\ ~Configs(e).skipAutoDeploy
  IN  SelectSeq(Values(extensions), Keep)

\* the adapters with an ACL flag scoped to the target extension
AdaptersAccessing(targetExtension) ==
  LET Keep(a) == /\ Configs(a).enabled
                 /\ ~Configs(a).skipAutoDeploy
                 /\ Configs(targetExtension).id \in Configs(a).aclsExtensions
  IN  SelectSeq(Values(adapters), Keep)

\* the target extensions of the extension-to-extension grants
ExtensionGrantTargets ==
  LET Keep(e) == Configs(e).enabled
  IN  SelectSeq(Values(extensions), Keep)

\* the other extensions with an ACL flag scoped to the target extension
ExtensionsAccessing(targetExtension) ==
  LET Keep(e) == /\ Configs(e).enabled
                 /\ Configs(e).id # Configs(targetExtension).id
                 /\ Configs(targetExtension).id \in Configs(e).aclsExtensions
  IN  SelectSeq(Values(extensions), Keep)

\* mutant: configureExtensionAccess without the test of withAccess.length
ConfigureExtensionAccessAlways(contracts, extension) ==
  /\ Issue("configureExtension", extension.name,
           [k \in 1..Len(contracts) |-> AclFlag(contracts[k])])
  /\ pc' = pc

\* configureExtensionAccess: one batched call unless no contract needs access
ConfigureExtensionAccess(contracts, extension) ==
  IF Len(contracts) > 0
    THEN /\ Issue("configureExtension", extension.name,
                  [k \in 1..Len(contracts) |-> AclFlag(contracts[k])])
         /\ pc' = pc
    ELSE /\ pc' = [pc EXCEPT !.i = @ + 1]
         /\ UNCHANGED <<inflight, log>>

ConfigureAdaptersStep ==
  /\ Running("adapterGrants")
  /\ Awaited
  /\ LET targets == AdapterGrantTargets
     IN  IF pc.i > Len(targets)
           THEN /\ pc' = PhaseAfter("adapterGrants")
                /\ UNCHANGED <<inflight, log>>
           ELSE ConfigureExtensionAccess(AdaptersAccessing(targets[pc.i]),
                                         targets[pc.i])
  /\ UNCHANGED <<Ends, nextAddr, instances, Daos, Maps, tmp, result, Inputs>>

ConfigureAdaptersThen ==
  /\ Running("adapterGrants")
  /\ \E call \in inflight :
       /\ inflight' = inflight \ {call}
       /\ pc' = [pc EXCEPT !.i = @ + 1]
  /\ UNCHANGED <<log, Ends, nextAddr, instances, Daos, Maps, tmp, result,
                 Inputs>>

ConfigureExtensionsStep ==
  /\ Running("extensionGrants")
  /\ Awaited
  /\ LET targets == ExtensionGrantTargets
     IN  IF pc.i > Len(targets)
           THEN /\ pc' = PhaseAfter("extensionGrants")
                /\ UNCHANGED <<inflight, log>>
           ELSE ConfigureExtensionAccess(ExtensionsAccessing(targets[pc.i]),
                                         targets[pc.i])
  /\ UNCHANGED <<Ends, nextAddr, instances, Daos, Maps, tmp, result, Inputs>>

ConfigureExtensionsThen ==
  /\ Running("extensionGrants")
  /\ \E call \in inflight :
       /\ inflight' = inflight \ {call}
       /\ pc' = [pc EXCEPT !.i = @ + 1]
  /\ UNCHANGED <<log, Ends, nextAddr, instances, Daos, Maps, tmp, result,
                 Inputs>>

(***************************************************************************)
(* configureOffchainVoting, and deployDao's use of its result              *)
(***************************************************************************)
\* mutant: configureOffchainVoting without the early return
OffchainVotingAlways == TRUE

\* if (!offchainVoting) return votingHelpers
OffchainVotingEnabled == options.offchainVoting

\* chain state: the adapter registered under the voting id by addAdapters,
\* the zero address when none is
CurrentVotingAdapterAddress ==
  LET regs == {<<k, l>> \in (1..Len(log)) \X (1..Len(contractConfigs) * 2) :
                 /\ log[k].op = "addAdapters"
                 /\ l <= Len(log[k].args)
                 /\ log[k].args[l].v = "voting"}
  IN  IF regs = {} THEN 0
      ELSE LET last == CHOOSE r \in regs :
                         \A q \in regs : q[1] < r[1]
                                           \/ (q[1] = r[1] /\ q[2] <= r[2])
           IN  log[last[1]].args[last[2]].a

\* mutant: extensions.bankExt.address is read before the adapter is replaced
OffchainCheckBeforeReplacement(step) ==
  IF step = "updateAdapter" /\ ~HasKey(extensions, "bankExt")
    THEN TypeError("address")
    ELSE NoError

\* the error thrown while the arguments of the next call are evaluated
OffchainCheck(step) ==
  IF step = "updateAdapter" /\ ~HasConfigs(tmp.offchain)
    THEN TypeError("id")
  ELSE IF step = "setAclToExtensionForAdapter" /\ ~HasKey(extensions, "bankExt")
    THEN TypeError("address")
  ELSE NoError

ConfigureOffchainVotingStep ==
  /\ Running("offchainVoting")
  /\ Awaited
  /\ IF ~OffchainVotingEnabled
       THEN /\ pc' = PhaseAfter("offchainVoting")
            /\ UNCHANGED <<inflight, log, Ends>>
       ELSE CASE pc.step = "getAdapterAddress" ->
                   ThrowOrIssue(NoError, "getAdapterAddress", "DaoRegistry",
                     <<Sha3("voting")>>)
              [] pc.step = "deploySnapshot" ->
                   ThrowOrIssue(NoError, "deployFunction",
                     "SnapshotProposalContract", <<Opt("chainId")>>)
              [] pc.step = "deployHash" ->
                   ThrowOrIssue(NoError, "deployFunction",
                     "OffchainVotingHashContract",
                     <<Addr(tmp.snapshot.address)>>)
              [] pc.step = "deployKick" ->
                   ThrowOrIssue(NoError, "deployFunction",
                     "KickBadReporterAdapter", <<>>)
              [] pc.step = "deployOffchain" ->
                   ThrowOrIssue(NoError, "deployFunction",
                     "OffchainVotingContract",
                     <<Addr(tmp.addr), Addr(tmp.hash.address),
                       Addr(tmp.snapshot.address), Addr(tmp.kick.address),
                       Opt("offchainAdmin")>>)
              [] pc.step = "updateAdapter" ->
                   ThrowOrIssue(OffchainCheck(pc.step), "updateAdapter",
                     "DaoFactory", <<EntryDao(tmp.offchain)>>)
              [] pc.step = "setAclToExtensionForAdapter" ->
                   ThrowOrIssue(OffchainCheck(pc.step),
                     "setAclToExtensionForAdapter", "DaoRegistry",
                     <<Addr(Get(extensions, "bankExt").address),
                       Addr(tmp.offchain.address)>>)
              [] OTHER ->
                   ThrowOrIssue(NoError, "configureDao",
                     "OffchainVotingContract",
                     <<Addr(dao.address), Opt("votingPeriod"),
                       Opt("gracePeriod"), Str("10")>>)
  /\ UNCHANGED <<nextAddr, instances, Daos, Maps, tmp, result, Inputs>>

ConfigureOffchainVotingThen ==
  /\ Running("offchainVoting")
  /\ \E call \in inflight :
       /\ inflight' = inflight \ {call}
       /\ CASE pc.step = "getAdapterAddress" ->
                 /\ tmp' = [tmp EXCEPT !.addr = CurrentVotingAdapterAddress]
                 /\ pc' = [pc EXCEPT !.step = "deploySnapshot"]
                 /\ UNCHANGED <<nextAddr, adapters, votingHelpers>>
            [] pc.step = "deploySnapshot" ->
                 /\ tmp' = [tmp EXCEPT !.snapshot =
                              Handle(call.target, nextAddr)]
                 /\ nextAddr' = nextAddr + 1
                 /\ pc' = [pc EXCEPT !.step = "deployHash"]
                 /\ UNCHANGED <<adapters, votingHelpers>>
            [] pc.step = "deployHash" ->
                 /\ tmp' = [tmp EXCEPT !.hash = Handle(call.target, nextAddr)]
                 /\ nextAddr' = nextAddr + 1
                 /\ pc' = [pc EXCEPT !.step = "deployKick"]
                 /\ UNCHANGED <<adapters, votingHelpers>>
            [] pc.step = "deployKick" ->
                 /\ tmp' = [tmp EXCEPT !.kick = Handle(call.target, nextAddr)]
                 /\ nextAddr' = nextAddr + 1
                 /\ pc' = [pc EXCEPT !.step = "deployOffchain"]
                 /\ UNCHANGED <<adapters, votingHelpers>>
            [] pc.step = "deployOffchain" ->
                 /\ tmp' = [tmp EXCEPT !.offchain =
                              Handle(call.target, nextAddr)]
                 /\ nextAddr' = nextAddr + 1
                 /\ pc' = [pc EXCEPT !.step = "updateAdapter"]
                 /\ UNCHANGED <<adapters, votingHelpers>>
            [] pc.step = "updateAdapter" ->
                 /\ pc' = [pc EXCEPT !.step = "setAclToExtensionForAdapter"]
                 /\ UNCHANGED <<tmp, nextAddr, adapters, votingHelpers>>
            [] pc.step = "setAclToExtensionForAdapter" ->
                 /\ pc' = [pc EXCEPT !.step = "configureDao"]
                 /\ UNCHANGED <<tmp, nextAddr, adapters, votingHelpers>>
            [] OTHER ->
                 /\ votingHelpers' =
                      [snapshotProposalContract |-> tmp.snapshot,
                       handleBadReporterAdapter |-> tmp.kick,
                       offchainVoting |-> tmp.offchain]
                 /\ adapters' = Put(adapters, Configs(tmp.offchain).alias,
                                    tmp.offchain)
                 /\ pc' = PhaseAfter("offchainVoting")
                 /\ UNCHANGED <<tmp, nextAddr>>
  /\ UNCHANGED <<log, Ends, instances, Daos, factories, extensions,
                 utilContracts, testContracts, result, Inputs>>

(***************************************************************************)
(* the end of deployDao: finalizeDao and the returned aggregate            *)
(***************************************************************************)
\* mutant: finalizeDao is called whatever options.finalize holds
FinalizeAlways == TRUE

\* if (options.finalize)
FinalizeRequested == options.finalize

FinalizeDaoStep ==
  /\ Running("finalize")
  /\ Awaited
  /\ IF FinalizeRequested
       THEN Issue("finalizeDao", "DaoRegistry", <<>>) /\ pc' = pc
       ELSE pc' = PhaseAfter("finalize") /\ UNCHANGED <<inflight, log>>
  /\ UNCHANGED <<Ends, nextAddr, instances, Daos, Maps, tmp, result, Inputs>>

FinalizeDaoThen ==
  /\ Running("finalize")
  /\ \E call \in inflight :
       /\ inflight' = inflight \ {call}
       /\ pc' = PhaseAfter("finalize")
  /\ UNCHANGED <<log, Ends, nextAddr, instances, Daos, Maps, tmp, result,
                 Inputs>>

\* the object deployDao returns
Aggregate ==
  [kind |-> "aggregate", dao |-> dao, adapters |-> adapters,
   extensions |-> extensions, testContracts |-> testContracts,
   utilContracts |-> utilContracts, votingHelpers |-> votingHelpers,
   factories |-> Put(factories, "daoFactory", daoFactory)]

Return ==
  /\ Running("return")
  /\ Awaited
  /\ outcome' = "resolved"
  /\ result' = Aggregate
  /\ UNCHANGED <<pc, inflight, log, raised, error, nextAddr, instances, Daos,
                 Maps, tmp, Inputs>>

(***************************************************************************)
(* A second deployDao run with the same table and options on the same      *)
(* chain: it deploys its own DaoFactory and clones its own DAO.            *)
(***************************************************************************)
Redeploy ==
  /\ outcome = "resolved"
  /\ run = 1
  /\ run' = 2
  /\ firstResult' = result
  /\ pc' = Pc("cloneDao", 1, "deployFunction", 1)
  /\ log' = <<>>
  /\ dao' = NoHandle
  /\ daoFactory' = NoHandle
  /\ factories' = EmptyMap
  /\ extensions' = EmptyMap
  /\ adapters' = EmptyMap
  /\ utilContracts' = EmptyMap
  /\ testContracts' = EmptyMap
  /\ votingHelpers' = NoVotingHelpers
  /\ tmp' = NoTmp
  /\ raised' = NoError
  /\ outcome' = "running"
  /\ error' = NoError
  /\ result' = NoResult
  /\ UNCHANGED <<contractConfigs, options, inflight, nextAddr, instances,
                 lookups>>

(***************************************************************************)
(* The network table and getNetworkDetails.  A name is the sequence of its *)
(* characters.                                                             *)
(***************************************************************************)
networks ==
  << [name |-> <<"g", "a", "n", "a", "c", "h", "e">>,
      chainId |-> 1337],
     [name |-> <<"r", "i", "n", "k", "e", "b", "y">>,
      chainId |-> 4],
     [name |-> <<"r", "i", "n", "k", "e", "b", "y", "-", "f", "o", "r", "k">>,
      chainId |-> 4],
     [name |-> <<"g", "o", "e", "r", "l", "i">>,
      chainId |-> 5],
     [name |-> <<"t", "e", "s", "t">>,
      chainId |-> 1],
     [name |-> <<"c", "o", "v", "e", "r", "a", "g", "e">>,
      chainId |-> 1],
     [name |-> <<"m", "a", "i", "n", "n", "e", "t">>,
      chainId |-> 1],
     [name |-> <<"h", "a", "r", "m", "o", "n", "y">>,
      chainId |-> 1666600000],
     [name |-> <<"h", "a", "r", "m", "o", "n", "y", "t", "e", "s", "t">>,
      chainId |-> 1666700000] >>

\* the result of Array.prototype.find that found nothing
NotFound == [found |-> FALSE, name |-> <<>>, chainId |-> 0]

\* whether p is a prefix of the name s
IsPrefix(p, s) == Len(p) <= Len(s) /\ SubSeq(s, 1, Len(p)) = p

\* mutant: networks.find((n) => n.name.startsWith(name))
getNetworkDetailsByPrefix(name) ==
  IF \E k \in 1..Len(networks) : IsPrefix(name, networks[k].name)
    THEN LET k == CHOOSE k \in 1..Len(networks) :
                    /\ IsPrefix(name, networks[k].name)
                    /\ \A l \in 1..(k - 1) : ~IsPrefix(name, networks[l].name)
         IN  [found |-> TRUE, name |-> networks[k].name,
              chainId |-> networks[k].chainId]
    ELSE NotFound

\* networks.find((n) => n.name === name)
getNetworkDetails(name) ==
  IF \E k \in 1..Len(networks) : networks[k].name = name
    THEN LET k == CHOOSE k \in 1..Len(networks) :
                    /\ networks[k].name = name
                    /\ \A l \in 1..(k - 1) : networks[l].name # name
         IN  [found |-> TRUE, name |-> networks[k].name,
              chainId |-> networks[k].chainId]
    ELSE NotFound

\* names that are not in the table: case variants, prefixes, extensions
UnregisteredNames ==
  {<<"G", "a", "n", "a", "c", "h", "e">>,
   <<"G", "A", "N", "A", "C", "H", "E">>,
   <<"r", "i", "n", "k">>,
   <<"r", "i", "n", "k", "e", "b", "y", "-">>,
   <<"r", "i", "n", "k", "e", "b", "y", "-", "f", "o", "r", "k", "2">>,
   <<"m", "a", "i", "n">>,
   <<"m", "a", "i", "n", "n", "e", "t", " ">>,
   <<"h", "a", "r", "m", "o", "n", "y", "-", "t", "e", "s", "t">>,
   <<"t", "e", "s">>,
   <<>>,
   <<"u", "n", "k", "n", "o", "w", "n">>}

LookupNames == {networks[k].name : k \in 1..Len(networks)} \cup UnregisteredNames

GetNetworkDetailsCall ==
  /\ Len(lookups) < MaxLookups
  /\ \E name \in LookupNames :
       lookups' = Append(lookups, [name |-> name,
                                   details |-> getNetworkDetails(name)])
  /\ UNCHANGED <<contractConfigs, options, pc, inflight, log, nextAddr,
                 instances, Daos, Maps, tmp, Ends, result, run, firstResult>>

Next ==
  \/ CloneDaoStep
  \/ CloneDaoThen
  \/ CreateFactoriesStep
  \/ CreateFactoriesThen
  \/ CreateExtensionsStep
  \/ CreateExtensionsThen
  \/ CreateAdaptersStep
  \/ CreateAdaptersThen
  \/ ConfigureAdaptersWithDAOAccessStep
  \/ ConfigureAdaptersWithDAOAccessThen
  \/ ConfigureAdaptersWithDAOParametersStep
  \/ ConfigureAdaptersWithDAOParametersThen
  \/ ConfigureAdaptersStep
  \/ ConfigureAdaptersThen
  \/ ConfigureExtensionsStep
  \/ ConfigureExtensionsThen
  \/ ConfigureOffchainVotingStep
  \/ ConfigureOffchainVotingThen
  \/ CreateUtilContractsStep
  \/ CreateUtilContractsThen
  \/ CreateTestContractsStep
  \/ CreateTestContractsThen
  \/ FinalizeDaoStep
  \/ FinalizeDaoThen
  \/ Return
  \/ Reject

Spec == Init /\ [][Next]_vars

\* two runs of deployDao, one after the other
NextTwice ==
  \/ Next
  \/ Redeploy

SpecTwice == Init /\ [][NextTwice]_vars

\* calls of getNetworkDetails alone
InitNet ==
  /\ Init
  /\ contractConfigs = DefaultConfigs
  /\ options = DefaultOptions

NextNet == GetNetworkDetailsCall

SpecNet == InitNet /\ [][NextNet]_vars

(***************************************************************************)
(* Vocabulary of the claims, stated on the inputs and the call log alone.  *)
(***************************************************************************)
\* the descriptors of one type that are enabled and not skipped, table order
AutoDeployed(type) ==
  LET Keep(d) == d.type = type /\ d.enabled = TRUE /\ d.skipAutoDeploy = FALSE
  IN  SelectSeq(contractConfigs, Keep)

\* the value the caller's options bag holds for an argument name
CallerOption(key) ==
  IF key \in DOMAIN options.vals THEN options.vals[key]
  ELSE IF key \in {"daoAddress", "unitTokenToMint", "lootTokenToMint"}
    THEN "added by deployDao"
  ELSE "undefined"

\* the declared arguments of a descriptor that the options bag lacks
AbsentArgs(d) ==
  {k \in 1..Len(d.deploymentArgs) :
     CallerOption(d.deploymentArgs[k]) \in {"undefined", "null"}}

\* the descriptor with a given contract name
DescriptorNamed(name) ==
  contractConfigs[CHOOSE k \in 1..Len(contractConfigs) :
                    contractConfigs[k].name = name]

IsDescriptorName(name) ==
  \E k \in 1..Len(contractConfigs) : contractConfigs[k].name = name

\* the category map of the returned aggregate that holds a descriptor type
ResultMapOf(type) ==
  CASE type = "Factory" -> result.factories
    [] type = "Extension" -> result.extensions
    [] type = "Adapter" -> result.adapters
    [] type = "Util" -> result.utilContracts
    [] OTHER -> result.testContracts

\* the entries of the aggregate that belong to descriptor d
EntriesOf(d) ==
  LET m == ResultMapOf(d.type)
  IN  {j \in 1..Len(m) : m[j].alias = d.alias /\ m[j].handle.name = d.name}

(***************************************************************************)
(* C1.  After a successful deployDao run the result aggregate holds        *)
(* exactly one entry, keyed by its alias, for every enabled, non-skipped   *)
(* descriptor and no entry for a disabled or skipped descriptor.  Stated   *)
(* for the inputs that request the test contracts, leave off-chain voting  *)
(* off and give the deployed descriptors of one type distinct aliases, so  *)
(* that the documented exceptions do not apply.  The code violates it: the *)
(* extensions map follows the flags of the factories, not those of the     *)
(* Extension descriptors.                                                  *)
(***************************************************************************)
C1_DistinctAliases ==
  \A k, l \in 1..Len(contractConfigs) :
    (/\ k # l
     /\ contractConfigs[k].type = contractConfigs[l].type
     /\ contractConfigs[k].enabled /\ ~contractConfigs[k].skipAutoDeploy
     /\ contractConfigs[l].enabled /\ ~contractConfigs[l].skipAutoDeploy)
      => contractConfigs[k].alias # contractConfigs[l].alias

C1_AggregateHoldsTheAutoDeployed ==
  (/\ outcome = "resolved"
   /\ options.deployTestTokens
   /\ ~options.offchainVoting
   /\ C1_DistinctAliases)
    => \A k \in 1..Len(contractConfigs) :
         LET d == contractConfigs[k]
         IN  IF d.enabled /\ ~d.skipAutoDeploy
               THEN Cardinality(EntriesOf(d)) = 1
               ELSE EntriesOf(d) = {}

(***************************************************************************)
(* C2.  Original: when the run comes to deploy a descriptor one of whose   *)
(* declared arguments is absent from the options bag, the deploy primitive *)
(* is not invoked, deployDao never resolves, and the error it rejects with *)
(* names the descriptor and an absent argument.                            *)
(* Amended (C2_MissingArgumentFails): the same, provided the contract of   *)
(* the descriptor is registered in the options bag; the error then names   *)
(* the first absent argument in declared order.  When the contract is not  *)
(* registered, deployContract fails earlier with the contract-not-found    *)
(* error, which names the descriptor only.                                 *)
(***************************************************************************)
\* the descriptor the run is about to deploy (deployContract) or to create
\* an extension from (factory.create); <<>> when it is at no such point
C2_Pending ==
  LET type == CASE pc.phase = "createAdapters" -> "Adapter"
                [] pc.phase = "createUtilContracts" -> "Util"
                [] pc.phase = "createTestContracts" -> "Test"
                [] OTHER -> "none"
  IN  IF type # "none"
        THEN IF pc.i <= Len(AutoDeployed(type))
                  /\ (type = "Test" => options.deployTestTokens)
               THEN <<AutoDeployed(type)[pc.i]>>
               ELSE <<>>
      ELSE IF pc.phase = "createExtensions" /\ pc.step = "create"
                /\ pc.i <= Len(factories)
        THEN <<DescriptorNamed(factories[pc.i].handle.name)>>
      ELSE <<>>

C2_Primitive(d) == IF d.type = "Factory" THEN "create" ELSE "deployFunction"

C2_NotInvoked(d) ==
  /\ inflight = {}
  /\ \A k \in 1..Len(log) :
       ~(log[k].op = C2_Primitive(d) /\ log[k].target = d.name)

C2_OriginalMissingArgumentFails ==
  \A k \in 1..Len(C2_Pending) :
    LET d == C2_Pending[k]
    IN  AbsentArgs(d) # {}
          => /\ C2_NotInvoked(d)
             /\ outcome # "resolved"
             /\ result = NoResult
             /\ outcome = "rejected"
                  => /\ error.name = d.name
                     /\ \E a \in AbsentArgs(d) :
                          error.arg = d.deploymentArgs[a]

C2_MissingArgumentFails ==
  \A k \in 1..Len(C2_Pending) :
    LET d == C2_Pending[k]
        first == CHOOSE a \in AbsentArgs(d) : \A b \in AbsentArgs(d) : a <= b
    IN  AbsentArgs(d) # {}
          => /\ C2_NotInvoked(d)
             /\ outcome # "resolved"
             /\ result = NoResult
             /\ outcome = "rejected"
                  => IF d.name \in options.contracts
                       THEN error =
                              Err(IF d.type = "Factory"
                                    THEN "MissingCreateArgument"
                                    ELSE "MissingDeploymentArgument",
                                  d.deploymentArgs[first], d.name)
                       ELSE error = Err("ContractNotFound", "", d.name)

\* a deployment was rejected for the first of two absent arguments
C2_Witness ==
  /\ outcome = "rejected"
  /\ error.kind = "MissingDeploymentArgument"
  /\ Len(C2_Pending) = 1
  /\ Cardinality(AbsentArgs(C2_Pending[1])) = 2
  /\ Len(log) > 4

(***************************************************************************)
(* C3.  Original: when the run fails on a factory whose                    *)
(* generatesExtensionId resolves to no descriptor, no on-chain creation    *)
(* call (deployFunction, createDao, factory.create) was attempted before.  *)
(* Amended (C3_UnlinkedFactoryFails): an enabled, non-skipped factory whose*)
(* link does not resolve always makes the run fail, and no deployFunction  *)
(* for that factory nor any call of a later phase is ever issued; the      *)
(* calls of cloneDao (DaoFactory deployment, createDao) and the deployments*)
(* of the factories before it in the table have been made by then.         *)
(***************************************************************************)
C3_IsCreation(call) == call.op \in {"deployFunction", "createDao", "create"}

\* table indices of the auto-deployed factories whose link does not resolve
C3_Unlinked ==
  {k \in 1..Len(contractConfigs) :
     /\ contractConfigs[k].type = "Factory"
     /\ contractConfigs[k].enabled /\ ~contractConfigs[k].skipAutoDeploy
     /\ \A l \in 1..Len(contractConfigs) :
          contractConfigs[l].id # contractConfigs[k].generatesExtensionId}

C3_TableIndex(name) ==
  CHOOSE k \in 1..Len(contractConfigs) : contractConfigs[k].name = name

C3_OriginalFailsBeforeAnyCreation ==
  (outcome = "rejected" /\ error.kind = "MissingExtensionConfig")
    => \A k \in 1..Len(log) : ~C3_IsCreation(log[k])

C3_UnlinkedFactoryFails ==
  /\ C3_Unlinked # {}
       => /\ outcome # "resolved"
          /\ \A k \in 1..Len(log) :
               \/ log[k].op \in {"deployFunction", "createDao",
                                 "getDaoAddress"}
                    /\ log[k].target = "DaoFactory"
               \/ log[k].op = "at" /\ log[k].target = "DaoRegistry"
               \/ /\ log[k].op = "deployFunction"
                  /\ IsDescriptorName(log[k].target)
                  /\ DescriptorNamed(log[k].target).type = "Factory"
                  /\ \A u \in C3_Unlinked : C3_TableIndex(log[k].target) < u
  /\ (outcome = "rejected" /\ error.kind = "MissingExtensionConfig")
       => /\ C3_Unlinked # {}
          /\ inflight = {}
          /\ error.name \in {contractConfigs[u].name : u \in C3_Unlinked}

\* the run failed on the second factory after the first one was deployed
C3_Witness ==
  /\ outcome = "rejected"
  /\ error.kind = "MissingExtensionConfig"
  /\ \E k \in 1..Len(log) :
       log[k].op = "deployFunction" /\ log[k].target = "BankFactory"

(***************************************************************************)
(* C4.  Fail-fast: a step that raises an error, and every step after it,   *)
(* issues no call and leaves no call in flight that was not there before;  *)
(* as soon as an error is raised the run is rejected, and stays so.        *)
(***************************************************************************)
C4_FailFast ==
  /\ [](raised # NoError => outcome = "rejected" /\ result = NoResult)
  /\ [][raised' # NoError
          => /\ log' = log
             /\ inflight' \subseteq inflight
             /\ outcome' = "rejected"]_vars

\* a chain call rejected in the middle of the run, after several succeeded
C4_Witness ==
  /\ outcome = "rejected"
  /\ raised.kind = "ChainCallError"
  /\ pc.phase = "createAdapters"
  /\ Len(log) > 10

(***************************************************************************)
(* C5.  Whenever a sub-operation of deployDao fails, deployDao rejects     *)
(* with the very error that sub-operation raised.  The code violates it in *)
(* the adapter-to-extension grants: the catch handler of configureAdapters *)
(* throws a TypeError of its own while it builds its log message.          *)
(***************************************************************************)
C5_CallerReceivesTheOriginalError ==
  outcome = "rejected" => error = raised

(***************************************************************************)
(* C6.  With the offchainVoting flag unset, whatever the other options,    *)
(* the installer issues no chain call, its result is all null, and the     *)
(* adapters map holds only what createAdapters put there.                  *)
(***************************************************************************)
C6_OffchainOps ==
  {"getAdapterAddress", "updateAdapter", "setAclToExtensionForAdapter"}

C6_OffchainContracts ==
  {"SnapshotProposalContract", "OffchainVotingHashContract",
   "KickBadReporterAdapter", "OffchainVotingContract"}

C6_InstallerIsNoOpWhenFlagUnset ==
  ~options.offchainVoting
    => /\ votingHelpers = NoVotingHelpers
       /\ \A k \in 1..Len(log) :
            /\ log[k].op \notin C6_OffchainOps
            /\ log[k].target \notin C6_OffchainContracts
            /\ log[k].phase # "offchainVoting"
       /\ \A k \in 1..Len(adapters) :
            /\ adapters[k].handle.name # "OffchainVotingContract"
            /\ \E l \in 1..Len(AutoDeployed("Adapter")) :
                 AutoDeployed("Adapter")[l].name = adapters[k].handle.name
       /\ outcome = "resolved"
            => /\ result.votingHelpers = NoVotingHelpers
               /\ result.adapters = adapters

\* the installer returned with the flag unset although its other options
\* (chainId, votingPeriod, gracePeriod) are set
C6_Witness ==
  /\ ~options.offchainVoting
  /\ pc.phase = "createUtilContracts"
  /\ options.vals["chainId"] = "1"
  /\ options.vals["votingPeriod"] = "10"
  /\ Len(adapters) = 2

(***************************************************************************)
(* C7.  At most one call is in flight, and it is the one issued last; in   *)
(* each deployment phase the calls are issued for the enabled, non-skipped *)
(* descriptors of the phase's type in table order, and the configureDao    *)
(* calls of the parameter phase follow the table order of the adapters.    *)
(***************************************************************************)
C7_CallsOf(phase) ==
  LET Keep(call) == call.phase = phase
  IN  SelectSeq(log, Keep)

C7_FollowsTable(phase, type) ==
  LET calls == C7_CallsOf(phase)
  IN  /\ Len(calls) <= Len(AutoDeployed(type))
      /\ \A k \in 1..Len(calls) :
           /\ calls[k].op = "deployFunction"
           /\ calls[k].target = AutoDeployed(type)[k].name

C8_Block(call) ==
  IF call.target \in C6_OffchainContracts \/ call.op \in C6_OffchainOps
    THEN 3
  ELSE IF call.op \in {"addAdapters", "configureDao", "configureExtension"}
    THEN 2
  ELSE IF call.op = "finalizeDao" THEN 4
  ELSE IF /\ call.op = "deployFunction"
          /\ IsDescriptorName(call.target)
          /\ DescriptorNamed(call.target).type \in {"Util", "Test"}
    THEN 4
  ELSE 1

C8_IsDeployment(call) == call.op \in {"deployFunction", "create", "createDao"}

C8_OriginalAllDeployedBeforeConfiguring ==
  \A k, l \in 1..Len(log) :
    (C8_Block(log[k]) = 2 /\ C8_IsDeployment(log[l])) => l < k

C8_ConfiguratorAfterCoreDeployments ==
  /\ \A k \in 1..(Len(log) - 1) : C8_Block(log[k]) <= C8_Block(log[k + 1])
  /\ \A call \in inflight : call = log[Len(log)]

\* a run that deployed off-chain voting and utility contracts after
\* configureDao
C8_Witness ==
  /\ pc.phase = "finalize"
  /\ \E k, l, m \in 1..Len(log) :
       /\ k < l /\ l < m
       /\ C8_Block(log[k]) = 2
       /\ C8_Block(log[l]) = 3 /\ log[l].op = "deployFunction"
       /\ C8_Block(log[m]) = 4 /\ log[m].op = "deployFunction"

(***************************************************************************)
(* C9.  Two successful runs with the same table and options give results   *)
(* with the same aliases in every category map and the same voting helpers *)
(* present, and no contract address of the second result is an address of  *)
(* the first.                                                              *)
(***************************************************************************)
C9_Maps(r) ==
  <<r.adapters, r.extensions, r.utilContracts, r.testContracts, r.factories>>

\* the addresses of the contracts of a result
C9_Addresses(r) ==
  {r.dao.address}
  \cup UNION {{C9_Maps(r)[c][k].handle.address :
                 k \in 1..Len(C9_Maps(r)[c])} : c \in 1..Len(C9_Maps(r))}
  \cup {r.votingHelpers[f].address :
          f \in {g \in DOMAIN r.votingHelpers :
                   r.votingHelpers[g] # NoHandle}}

C9_SameShapeDifferentAddresses ==
  (run = 2 /\ outcome = "resolved")
    => /\ \A c \in 1..Len(C9_Maps(result)) :
            Keys(C9_Maps(result)[c]) = Keys(C9_Maps(firstResult)[c])
       /\ \A f \in DOMAIN result.votingHelpers :
            (result.votingHelpers[f] = NoHandle)
              = (firstResult.votingHelpers[f] = NoHandle)
       /\ C9_Addresses(result) \cap C9_Addresses(firstResult) = {}

\* both runs succeeded and deployed extensions, adapters and test contracts
C9_Witness ==
  /\ run = 2
  /\ outcome = "resolved"
  /\ Len(result.extensions) = 2
  /\ Len(result.adapters) = 2
  /\ Len(result.testContracts) = 1
  /\ Len(firstResult.extensions) = 2

(***************************************************************************)
(* C10.  getNetworkDetails is an exact-match lookup: a registered name     *)
(* gives the entry of that name with its chainId; any other name, a case   *)
(* variant or a prefix of a registered name included, gives the absent     *)
(* result.                                                                 *)
(***************************************************************************)
C10_ExactLookup ==
  \A k \in 1..Len(lookups) :
    LET name == lookups[k].name
        details == lookups[k].details
        entries == {l \in 1..Len(networks) : networks[l].name = name}
    IN  /\ entries # {}
             => /\ details.found
                /\ details.name = name
                /\ \E l \in entries : details.chainId = networks[l].chainId
        /\ entries = {} => ~details.found /\ details = NotFound
        /\ name = <<"r", "i", "n", "k", "e", "b", "y">>
             => details.chainId = 4
        /\ name = <<"g", "a", "n", "a", "c", "h", "e">>
             => details.chainId = 1337
        /\ name \in UnregisteredNames => ~details.found

\* a prefix of a registered name was looked up, then a registered name
C10_Witness ==
  /\ Len(lookups) = 2
  /\ lookups[1].name = <<"r", "i", "n", "k">>
  /\ ~lookups[1].details.found
  /\ lookups[2].name = <<"r", "i", "n", "k", "e", "b", "y", "-", "f", "o", "r", "k">>
  /\ lookups[2].details.found

(***************************************************************************)
(* C11.  With the deployTestTokens flag unset the test-contracts phase     *)
(* issues no call and the test-contracts map stays empty, whatever Test    *)
(* descriptors the table holds; with the flag set, a run that completed    *)
(* the phase issued one deployFunction call for every enabled, non-skipped *)
(* Test descriptor and holds its handle in the map.                        *)
(***************************************************************************)
C11_TestDeployments ==
  {k \in 1..Len(log) :
     \/ log[k].phase = "createTestContracts"
     \/ /\ IsDescriptorName(log[k].target)
        /\ DescriptorNamed(log[k].target).type = "Test"}

C11_PhaseDone == pc.phase \in {"finalize", "return"}

C11_TestPhaseIsGated ==
  /\ ~options.deployTestTokens
       => /\ C11_TestDeployments = {}
          /\ testContracts = <<>>
          /\ outcome = "resolved" => result.testContracts = <<>>
  /\ (options.deployTestTokens /\ C11_PhaseDone)
       => \A l \in 1..Len(AutoDeployed("Test")) :
            LET d == AutoDeployed("Test")[l]
            IN  /\ \E k \in C11_TestDeployments :
                     /\ log[k].op = "deployFunction"
                     /\ log[k].target = d.name
                /\ \E j \in 1..Len(testContracts) :
                     /\ testContracts[j].alias = d.alias
                     /\ testContracts[j].handle.name = d.name

\* a run resolved with the flag unset although the table holds an enabled,
\* non-skipped Test descriptor whose contract and argument are present
C11_Witness ==
  /\ ~options.deployTestTokens
  /\ outcome = "resolved"
  /\ Len(AutoDeployed("Test")) > 0
  /\ "TestToken1" \in options.contracts
  /\ options.vals["supplyTestToken1"] = "1000"

(***************************************************************************)
(* C12.  finalizeDao is issued at most once and only with options.finalize *)
(* set; when issued it is the last call of the run, issued after every     *)
(* other phase ended; a run that resolved issued it exactly once if        *)
(* finalize is set and never if it is unset.                               *)
(***************************************************************************)
C12_Finalizations == {k \in 1..Len(log) : log[k].op = "finalizeDao"}

C12_FinalizeLastIffRequested ==
  /\ Cardinality(C12_Finalizations) <= 1
  /\ \A k \in C12_Finalizations :
       /\ options.finalize
       /\ k = Len(log)
       /\ log[k].target = "DaoRegistry"
       /\ pc.phase \in {"finalize", "return"}
  /\ ~options.finalize => C12_Finalizations = {}
  /\ outcome = "resolved"
       => (options.finalize <=> Cardinality(C12_Finalizations) = 1)

\* a resolved run with off-chain voting whose last call is finalizeDao
C12_Witness ==
  /\ outcome = "resolved"
  /\ options.finalize
  /\ options.offchainVoting
  /\ log[Len(log)].op = "finalizeDao"
  /\ \E k \in 1..(Len(log) - 1) : log[k].phase = "createTestContracts"

(***************************************************************************)
(* C13.  In one run the creation primitive (deployFunction with the        *)
(* descriptor's contract; for an Extension descriptor the create call of   *)
(* the factory that generates it) is invoked at most once for any          *)
(* descriptor, never for a disabled or skipped one, and exactly once for   *)
(* every enabled, non-skipped descriptor of a resolved run.  Stated for    *)
(* the inputs that request the test contracts, leave off-chain voting off  *)
(* and give the deployed factories distinct aliases.  The code violates    *)
(* it: an extension is created whenever its factory is enabled and not     *)
(* skipped, whatever the flags of the Extension descriptor.                *)
(***************************************************************************)
C13_Creations(d) ==
  {k \in 1..Len(log) :
     \/ log[k].op = "deployFunction" /\ log[k].target = d.name
     \/ /\ d.type = "Extension"
        /\ log[k].op = "create"
        /\ IsDescriptorName(log[k].target)
        /\ DescriptorNamed(log[k].target).generatesExtensionId = d.id}

C13_CreatedExactlyOncePerDescriptor ==
  (/\ options.deployTestTokens
   /\ ~options.offchainVoting
   /\ C1_DistinctAliases)
    => \A i \in 1..Len(contractConfigs) :
         LET d == contractConfigs[i]
         IN  /\ Cardinality(C13_Creations(d)) <= 1
             /\ (~d.enabled \/ d.skipAutoDeploy) => C13_Creations(d) = {}
             /\ (outcome = "resolved" /\ d.enabled /\ ~d.skipAutoDeploy)
                  => Cardinality(C13_Creations(d)) = 1

(***************************************************************************)
(* C14.  The calls of the Access Configurator come in a fixed order: one   *)
(* addAdapters call, then the configureDao parameter calls, then the       *)
(* adapter-to-extension grants, then the extension-to-extension grants,    *)
(* each issued after the previous call resolved.  The addAdapters batch    *)
(* holds the entries of the enabled, non-skipped adapters with a DAO-level *)
(* access declaration, followed by those of the deployed extensions that   *)
(* declare access onto other extensions.                                   *)
(* Original: every enabled such extension is in the batch.                 *)
(* Amended (C14_FixedOrder): every enabled and non-skipped such extension  *)
(* is; an enabled extension that is marked skipped, and was created        *)
(* because its factory is deployed, has no entry.                          *)
(***************************************************************************)
C14_IdsOfType(type) ==
  {contractConfigs[i].id : i \in {j \in 1..Len(contractConfigs) :
                                    contractConfigs[j].type = type}}

\* 1: addAdapters  2: configureDao of a deployed adapter
\* 3: grant to adapters  4: grant to extensions  0: not a configurator call
C14_Rank(call) ==
  IF call.op = "addAdapters" THEN 1
  ELSE IF call.op = "configureDao" /\ call.target # "OffchainVotingContract"
    THEN 2
  ELSE IF call.op = "configureExtension"
    THEN IF \A k \in 1..Len(call.args) :
              call.args[k].v \in C14_IdsOfType("Adapter")
           THEN 3 ELSE 4
  ELSE 0

C14_Calls ==
  LET Keep(call) == C14_Rank(call) > 0
  IN  SelectSeq(log, Keep)

\* ids of the adapters of the batch, in table order
C14_AdapterIds ==
  LET Keep(d) == d.aclsDao
      ds == SelectSeq(AutoDeployed("Adapter"), Keep)
  IN  [k \in 1..Len(ds) |-> ds[k].id]

\* entries of the deployed extensions with access onto other extensions;
\* WithSkipped tells whether the skipped ones are counted
C14_ExtensionEntries(WithSkipped) ==
  LET Keep(e) == /\ DescriptorNamed(e.handle.name).enabled
                 /\ DescriptorNamed(e.handle.name).aclsExtensions # {}
                 /\ WithSkipped
                      \/ ~DescriptorNamed(e.handle.name).skipAutoDeploy
      es == SelectSeq(extensions, Keep)
  IN  [k \in 1..Len(es) |->
         [k |-> "entry", v |-> DescriptorNamed(es[k].handle.name).id,
          a |-> es[k].handle.address]]

C14_Order(WithSkipped) ==
  LET calls == C14_Calls
  IN  /\ \A k \in 1..Len(calls) : (C14_Rank(calls[k]) = 1) <=> (k = 1)
      /\ \A k \in 1..(Len(calls) - 1) :
           C14_Rank(calls[k]) <= C14_Rank(calls[k + 1])
      /\ \A call \in inflight : call = log[Len(log)]
      /\ Len(calls) > 0
           => LET batch == calls[1].args
                  n == Len(C14_AdapterIds)
              IN  /\ Len(batch) = n + Len(C14_ExtensionEntries(WithSkipped))
                  /\ \A k \in 1..Len(batch) :
                       IF k <= n
                         THEN /\ batch[k].k = "entry"
                              /\ batch[k].v = C14_AdapterIds[k]
                         ELSE batch[k] =
                                C14_ExtensionEntries(WithSkipped)[k - n]

C15_Pass(n) ==
  LET Keep(call) == C14_Rank(call) = n
  IN  SelectSeq(log, Keep)

\* the flag entries the first pass owes to a target extension: one for
\* each enabled adapter deployed by createAdapters that declares a flag
\* scoped to the target
C15_AdapterFlags(target) ==
  {[k |-> "flag", v |-> DescriptorNamed(adapters[j].handle.name).id,
    a |-> adapters[j].handle.address] :
     j \in {m \in 1..Len(adapters) :
              LET d == DescriptorNamed(adapters[m].handle.name)
              IN  d.enabled /\ ~d.skipAutoDeploy
                    /\ target.id \in d.aclsExtensions}}

\* the flag entries the second pass owes to a target extension
C15_ExtensionFlags(target) ==
  {[k |-> "flag", v |-> DescriptorNamed(extensions[j].handle.name).id,
    a |-> extensions[j].handle.address] :
     j \in {m \in 1..Len(extensions) :
              LET d == DescriptorNamed(extensions[m].handle.name)
              IN  d.enabled /\ d.id # target.id
                    /\ target.id \in d.aclsExtensions}}

\* position of the extension with a given contract name in creation order
C15_CreationIndex(name) ==
  CHOOSE j \in 1..Len(extensions) : extensions[j].handle.name = name

C15_Grants(n, Flags(_), Position(_)) ==
  LET calls == C15_Pass(n)
  IN  /\ \A k \in 1..Len(calls) :
           LET target == DescriptorNamed(calls[k].target)
               given == {calls[k].args[l] : l \in 1..Len(calls[k].args)}
           IN  /\ target.type = "Extension"
               /\ target.enabled
               /\ \E j \in 1..Len(extensions) :
                    extensions[j].handle.name = target.name
               /\ Len(calls[k].args) > 0
               /\ Cardinality(given) = Len(calls[k].args)
               /\ given = Flags(target)
      /\ \A k \in 1..(Len(calls) - 1) :
           Position(calls[k].target) < Position(calls[k + 1].target)

C15_OriginalGrantsPerTarget ==
  /\ C15_Grants(3, C15_AdapterFlags, C3_TableIndex)
  /\ C15_Grants(4, C15_ExtensionFlags, C3_TableIndex)

C15_GrantsPerTarget ==
  /\ C15_Grants(3, C15_AdapterFlags, C15_CreationIndex)
  /\ C15_Grants(4, C15_ExtensionFlags, C15_CreationIndex)

\* both passes were made, the first with calls toward two targets, and one
\* target of the second pass had no contract to grant access to
C15_Witness ==
  /\ pc.phase = "offchainVoting"
  /\ Len(C15_Pass(3)) = 2
  /\ Len(C15_Pass(4)) = 1
  /\ Len(extensions) = 2

(***************************************************************************)
(* C16.  The configureDao parameter calls are made once per declared group *)
(* of each enabled, non-skipped adapter, adapters in table order and       *)
(* groups in declared order, one after the other.  Each value is the       *)
(* address of the deployed extension with that id when the parameter name  *)
(* is a known extension identifier, and the value of that name in the      *)
(* options bag otherwise.  A parameter that does not resolve fails with an *)
(* error carrying its name and the owning contract's name, and the call    *)
(* for its group is not made.                                              *)
(***************************************************************************)
RECURSIVE C16_GroupsOf(_)
C16_GroupsOf(ds) ==
  IF ds = <<>> THEN <<>>
  ELSE [k \in 1..Len(Head(ds).daoConfigs) |->
          [name |-> Head(ds).name, group |-> Head(ds).daoConfigs[k]]]
       \o C16_GroupsOf(Tail(ds))

\* the groups to configure, in the order of the claim
C16_Groups == C16_GroupsOf(AutoDeployed("Adapter"))

C16_KnownExtensionId(n) == n \in {"bank", "erc20-ext", "nft"}

\* the deployed extensions with a given id
C16_ExtensionsWithId(n) ==
  {j \in 1..Len(extensions) :
     DescriptorNamed(extensions[j].handle.name).id = n}

C16_Resolves(n) ==
  IF C16_KnownExtensionId(n) THEN C16_ExtensionsWithId(n) # {}
  ELSE CallerOption(n) \notin {"undefined", "null", "0", ""}

\* the value of the claim for a parameter name that resolves
C16_Value(n) ==
  IF C16_KnownExtensionId(n)
    THEN [k |-> "addr", v |-> "",
          a |-> extensions[CHOOSE j \in C16_ExtensionsWithId(n) :
                             \A l \in C16_ExtensionsWithId(n) : j <= l]
                  .handle.address]
  ELSE IF n = "daoAddress" THEN [k |-> "addr", v |-> "", a |-> dao.address]
  ELSE [k |-> "val", v |-> CallerOption(n), a |-> 0]

C16_ParametersDone ==
  pc.phase \in {"adapterGrants", "extensionGrants", "offchainVoting",
                "createUtilContracts", "createTestContracts", "finalize",
                "return"}

C16_ParametersResolvedByPrecedence ==
  LET calls == C15_Pass(2)
  IN  /\ Len(calls) <= Len(C16_Groups)
      /\ \A k \in 1..Len(calls) :
           LET g == C16_Groups[k]
           IN  /\ calls[k].op = "configureDao"
               /\ calls[k].target = g.name
               /\ \A l \in 1..Len(g.group) : C16_Resolves(g.group[l])
               /\ calls[k].args =
                    [l \in 1..Len(g.group) |-> C16_Value(g.group[l])]
      /\ \A call \in inflight : call = log[Len(log)]
      /\ C16_ParametersDone => Len(calls) = Len(C16_Groups)
      /\ raised.kind = "DaoParameterError"
           => /\ outcome = "rejected"
              /\ Len(calls) < Len(C16_Groups)
              /\ LET g == C16_Groups[Len(calls) + 1]
                 IN  /\ raised.name = g.name
                     /\ \E l \in 1..Len(g.group) :
                          /\ raised.arg = g.group[l]
                          /\ ~C16_Resolves(g.group[l])
                          /\ \A m \in 1..(l - 1) : C16_Resolves(g.group[m])

\* all groups were configured, one with the address of an extension
C16_Witness ==
  /\ pc.phase = "adapterGrants"
  /\ Len(C15_Pass(2)) = 3
  /\ C16_ExtensionsWithId("erc20-ext") # {}
  /\ C15_Pass(2)[3].args[2] = C16_Value("erc20-ext")
  /\ C15_Pass(2)[3].args[2].k = "addr"

(***************************************************************************)
(* C17.  The calls of the extension phase come in blocks of four, one      *)
(* block per deployed factory in the order of the factories map: create on *)
(* the factory, getExtensionAddress(daoAddress) on the factory, the handle *)
(* of the extension contract at the address of the instance that create    *)
(* made, and addExtension with the hash of the extension's id and that     *)
(* address.  A block starts after the registration of the block before     *)
(* resolved; every extension of the map was registered exactly once; when  *)
(* the phase fails in block k the extensions of the blocks before k are    *)
(* created and registered and no call of a later block is made.            *)
(***************************************************************************)
C17_Calls ==
  LET Keep(call) ==
        \/ call.op \in {"create", "getExtensionAddress", "addExtension"}
        \/ call.op = "at" /\ call.target # "DaoRegistry"
  IN  SelectSeq(log, Keep)

C17_Protocol == <<"create", "getExtensionAddress", "at", "addExtension">>

C17_BlockOf(k) == ((k - 1) \div Len(C17_Protocol)) + 1

C17_StepOf(k) == ((k - 1) % Len(C17_Protocol)) + 1

\* the instances the chain recorded for the factory of block b
C17_InstancesOf(b) ==
  {r.instance : r \in {q \in instances :
                          q.factory = factories[b].handle.address}}

\* the Extension descriptor the factory of block b generates
C17_Generated(b) ==
  contractConfigs[
    CHOOSE i \in 1..Len(contractConfigs) :
      /\ contractConfigs[i].id =
           DescriptorNamed(factories[b].handle.name).generatesExtensionId
      /\ \A j \in 1..(i - 1) : contractConfigs[j].id # contractConfigs[i].id]

C17_InvokeThenQuery ==
  LET calls == C17_Calls
  IN  /\ \A k \in 1..Len(calls) :
           LET b == C17_BlockOf(k)
               step == C17_Protocol[C17_StepOf(k)]
               call == calls[k]
           IN  /\ b <= Len(factories)
               /\ call.op = step
               /\ step \in {"create", "getExtensionAddress"}
                    => call.target = factories[b].handle.name
               /\ step = "getExtensionAddress"
                    => call.args = <<[k |-> "addr", v |-> "",
                                      a |-> dao.address]>>
               /\ step = "at"
                    => /\ call.target = C17_Generated(b).name
                       /\ Len(call.args) = 1
                       /\ call.args[1].k = "addr"
                       /\ call.args[1].a \in C17_InstancesOf(b)
               /\ step = "addExtension"
                    => /\ call.args[1] =
                            [k |-> "sha3", v |-> C17_Generated(b).id, a |-> 0]
                       /\ call.args[2] = calls[k - 1].args[1]
      /\ \A call \in inflight : call = log[Len(log)]
      /\ \A b \in 1..Len(factories) :
           Cardinality(C17_InstancesOf(b)) <= 1
      /\ \A j \in 1..Len(extensions) :
           /\ Len(calls) >= j * Len(C17_Protocol)
           /\ extensions[j].handle.name = C17_Generated(j).name
           /\ extensions[j].handle.address \in C17_InstancesOf(j)
           /\ calls[j * Len(C17_Protocol)].args[2].a
                = extensions[j].handle.address
      /\ Len(calls) <= (Len(extensions) + 1) * Len(C17_Protocol)
      /\ (outcome = "rejected" /\ pc.phase = "createExtensions")
           => /\ pc.i = Len(extensions) + 1
              /\ Len(calls) <= pc.i * Len(C17_Protocol)

\* the phase failed in its second block, after the second create was
\* issued: the first extension is created and registered
C17_Witness ==
  /\ outcome = "rejected"
  /\ pc.phase = "createExtensions"
  /\ pc.i = 2
  /\ Len(extensions) = 1
  /\ Len(C17_Calls) > Len(C17_Protocol)

(***************************************************************************)
(* C18.  With the offchainVoting flag set the calls of the installer are a *)
(* prefix of: getAdapterAddress, the deployments of the snapshot-proposal  *)
(* contract, the hash helper, the bad-reporter contract and the off-chain  *)
(* voting adapter (its first argument the voting-adapter address the DAO   *)
(* holds), updateAdapter, setAclToExtensionForAdapter, and the adapter's   *)
(* configureDao with (dao, votingPeriod, gracePeriod, 10).  A resolved run *)
(* made all of them and returns three non-null helpers.  Without a bankExt *)
(* entry in the extensions map the installer fails once the first six      *)
(* calls resolved, and not before.                                         *)
(***************************************************************************)
C18_Steps ==
  << <<"getAdapterAddress", "DaoRegistry">>,
     <<"deployFunction", "SnapshotProposalContract">>,
     <<"deployFunction", "OffchainVotingHashContract">>,
     <<"deployFunction", "KickBadReporterAdapter">>,
     <<"deployFunction", "OffchainVotingContract">>,
     <<"updateAdapter", "DaoFactory">>,
     <<"setAclToExtensionForAdapter", "DaoRegistry">>,
     <<"configureDao", "OffchainVotingContract">> >>

C18_Calls ==
  LET Keep(call) == \/ call.op \in C6_OffchainOps
                    \/ call.target \in C6_OffchainContracts
  IN  SelectSeq(log, Keep)

\* the addresses registered under the voting id by the addAdapters batch,
\* the zero address when there is none
C18_VotingAdapterAddresses ==
  LET regs == {e \in UNION {{log[k].args[l] : l \in 1..Len(log[k].args)} :
                              k \in {m \in 1..Len(log) :
                                       log[m].op = "addAdapters"}} :
                 e.v = "voting"}
  IN  IF regs = {} THEN {0} ELSE {e.a : e \in regs}

C18_BankAbsent == \A j \in 1..Len(extensions) : extensions[j].alias # "bankExt"

\* the number of calls made before extensions.bankExt is read
C18_StepsBeforeBank ==
  CHOOSE k \in 1..Len(C18_Steps) : C18_Steps[k][1] = "updateAdapter"

C18_InstallerOrder ==
  LET calls == C18_Calls
  IN  /\ Len(calls) <= Len(C18_Steps)
      /\ \A k \in 1..Len(calls) :
           /\ <<calls[k].op, calls[k].target>> = C18_Steps[k]
           /\ options.offchainVoting
      /\ \A call \in inflight : call = log[Len(log)]
      /\ Len(calls) >= 5
           => /\ calls[5].args[1].k = "addr"
              /\ calls[5].args[1].a \in C18_VotingAdapterAddresses
      /\ Len(calls) = Len(C18_Steps)
           => calls[Len(calls)].args =
                <<[k |-> "addr", v |-> "", a |-> dao.address],
                  [k |-> "val", v |-> CallerOption("votingPeriod"), a |-> 0],
                  [k |-> "val", v |-> CallerOption("gracePeriod"), a |-> 0],
                  [k |-> "val", v |-> "10", a |-> 0]>>
      /\ (options.offchainVoting /\ outcome = "resolved")
           => /\ Len(calls) = Len(C18_Steps)
              /\ result.votingHelpers.snapshotProposalContract.name
                   = "SnapshotProposalContract"
              /\ result.votingHelpers.handleBadReporterAdapter.name
                   = "KickBadReporterAdapter"
              /\ result.votingHelpers.offchainVoting.name
                   = "OffchainVotingContract"
      /\ (options.offchainVoting /\ C18_BankAbsent)
           => /\ Len(calls) <= C18_StepsBeforeBank
              /\ outcome # "resolved"
              /\ (raised.kind = "TypeError" /\ raised.arg = "address")
                   => /\ Len(calls) = C18_StepsBeforeBank
                      /\ inflight = {}

\* the installer failed for want of the bank extension, after the four
\* deployments and the replacement of the voting adapter
C18_Witness ==
  /\ options.offchainVoting
  /\ C18_BankAbsent
  /\ outcome = "rejected"
  /\ raised.kind = "TypeError"
  /\ Len(C18_Calls) = C18_StepsBeforeBank
  /\ C18_Calls[C18_StepsBeforeBank].op = "updateAdapter"

(***************************************************************************)
(* C19.  A DAO parameter read from the options bag is rejected when its    *)
(* value is falsy, present or not: no configureDao parameter call carries  *)
(* such a value and the run fails at its group.  A deployment or create    *)
(* argument is rejected only when it is null or undefined: every other     *)
(* value, the falsy 0 included, is passed to deployFunction or             *)
(* factory.create as it is.                                                *)
(***************************************************************************)
C19_Nullish == {"undefined", "null"}

C19_OtherFalsy == {"0", ""}

\* the calls that deploy or create from a descriptor with its declared
\* arguments
C19_ArgumentCalls ==
  {k \in 1..Len(log) :
     /\ IsDescriptorName(log[k].target)
     /\ ~DescriptorNamed(log[k].target).skipAutoDeploy
     /\ \/ /\ log[k].op = "deployFunction"
           /\ DescriptorNamed(log[k].target).type # "Factory"
        \/ log[k].op = "create"}

C19_MissingMeansDifferentThings ==
  /\ \A k \in 1..Len(C15_Pass(2)) :
       \A l \in 1..Len(C15_Pass(2)[k].args) :
         LET arg == C15_Pass(2)[k].args[l]
         IN  arg.k = "val" => arg.v \notin C19_Nullish \cup C19_OtherFalsy
  /\ C16_ParametersDone
       => \A k \in 1..Len(C16_Groups) :
            \A l \in 1..Len(C16_Groups[k].group) :
              LET n == C16_Groups[k].group[l]
              IN  ~C16_KnownExtensionId(n)
                    => CallerOption(n) \notin C19_Nullish \cup C19_OtherFalsy
  /\ (raised.kind = "DaoParameterError" /\ ~C16_KnownExtensionId(raised.arg))
       => CallerOption(raised.arg) \in C19_Nullish \cup C19_OtherFalsy
  /\ \A k \in C19_ArgumentCalls :
       LET d == DescriptorNamed(log[k].target)
       IN  /\ Len(log[k].args) = Len(d.deploymentArgs)
           /\ \A l \in 1..Len(d.deploymentArgs) :
                /\ log[k].args[l].k = "val"
                /\ log[k].args[l].v = CallerOption(d.deploymentArgs[l])
                /\ log[k].args[l].v \notin C19_Nullish
  /\ raised.kind \in {"MissingDeploymentArgument", "MissingCreateArgument"}
       => CallerOption(raised.arg) \in C19_Nullish

\* one option, present with the value 0, was passed to the deployment of
\* the adapter and then rejected as a parameter of the same adapter
C19_Witness ==
  /\ options.vals["couponCreatorAddress"] = "0"
  /\ \E k \in C19_ArgumentCalls :
       /\ log[k].target = "CouponOnboardingContract"
       /\ \E l \in 1..Len(log[k].args) : log[k].args[l].v = "0"
  /\ raised.kind = "DaoParameterError"
  /\ raised.arg = "couponCreatorAddress"
  /\ raised.name = "CouponOnboardingContract"

(***************************************************************************)
(* C20.  No step of deployDao changes the options object the caller        *)
(* passed, nor the descriptor table it holds: the fields daoAddress,       *)
(* unitTokenToMint and lootTokenToMint live in the copy deployDao works    *)
(* on, and the DAO address they are built from is set once, after the      *)
(* clone, and never changes afterwards.                                    *)
(***************************************************************************)
C20_OptionsBagIsReadOnly ==
  [][/\ options' = options
     /\ contractConfigs' = contractConfigs
     /\ DOMAIN options'.vals \cap
          {"daoAddress", "unitTokenToMint", "lootTokenToMint"} = {}
     /\ dao.name # "undefined" => dao' = dao]_vars

\* a run went through every phase, off-chain voting included, and the
\* caller's bag is the one it passed
C20_Witness ==
  /\ outcome = "resolved"
  /\ dao.name = "DaoRegistry"
  /\ options = [DefaultOptions EXCEPT !.offchainVoting = TRUE]
  /\ Len(C18_Calls) = Len(C18_Steps)

====
